---- MODULE Spec2Model ----
(***************************************************************************)
(* Frame loop and swapchain recreation of HelloTriangleApplication         *)
(* (src/VulkanTest/main.cpp): mainLoop, drawFrame, recreateSwapChain,      *)
(* framebufferResizeCallback and cleanup, together with the GPU queue that *)
(* completes submitted frames and signals their fences.                    *)
(*                                                                         *)
(* The main thread is the only thread of the program; its position is pc.  *)
(* Window events are delivered only while the main thread is inside        *)
(* glfwPollEvents or glfwWaitEvents.  The driver's return codes are        *)
(* chosen nondeterministically.  A thrown std::runtime_error takes the     *)
(* program to pc = "aborted" (main catches it and returns EXIT_FAILURE).   *)
(***************************************************************************)
EXTENDS Integers, Sequences, FiniteSets, TLC

\* ------------------------------------------------------------------ bounds
\* Window dimensions range over 0..MaxDim (0 = minimised).
MaxDim == 2

\* The driver gives a swapchain 1..MaxImages images.
MaxImages == 2

\* uint32_t arithmetic is done modulo 2^UintBits.
UintBits == 3

\* A device reports 0..MaxMemoryTypes memory types, each with a mask of
\* MaxFlagBits property bits.
MaxMemoryTypes == 2
MaxFlagBits == 2

\* ------------------------------------------------------- program constants
MAX_FRAMES_IN_FLIGHT == 2

VK_SUCCESS == "VK_SUCCESS"
VK_SUBOPTIMAL_KHR == "VK_SUBOPTIMAL_KHR"
VK_ERROR_OUT_OF_DATE_KHR == "VK_ERROR_OUT_OF_DATE_KHR"
VK_ERROR_DEVICE_LOST == "VK_ERROR_DEVICE_LOST"
VK_ERROR_SURFACE_LOST_KHR == "VK_ERROR_SURFACE_LOST_KHR"
NoResult == "none"

\* Status codes each driver entry point may return.
AcquireResults ==
    {VK_SUCCESS, VK_SUBOPTIMAL_KHR, VK_ERROR_OUT_OF_DATE_KHR,
     VK_ERROR_DEVICE_LOST, VK_ERROR_SURFACE_LOST_KHR}
SubmitResults == {VK_SUCCESS, VK_ERROR_DEVICE_LOST}
PresentResults ==
    {VK_SUCCESS, VK_SUBOPTIMAL_KHR, VK_ERROR_OUT_OF_DATE_KHR,
     VK_ERROR_DEVICE_LOST, VK_ERROR_SURFACE_LOST_KHR}
CreateResults == {VK_SUCCESS, VK_ERROR_DEVICE_LOST}

Slots == 0 .. (MAX_FRAMES_IN_FLIGHT - 1)
Dims == 0 .. MaxDim

VARIABLES
    pc,                   \* position of the main thread
    m_currentFrame,       \* frame-slot index
    m_framebufferResized, \* flag set by framebufferResizeCallback
    m_inFlightFences,     \* slot -> TRUE iff the fence is signaled
    gpuQueue,             \* submissions not yet completed, in submission order
    res,                  \* drawFrame's local VkResult
    winW, winH,           \* the window's current framebuffer size
    width, height,        \* recreateSwapChain's locals
    evSeen,               \* glfwWaitEvents has processed at least one event
    shouldClose,          \* glfwWindowShouldClose
    retTo,                \* which call site of recreateSwapChain is active
    \* history of the current drawFrame iteration
    iterLog,              \* calls issued so far in this iteration
    startFrame,           \* m_currentFrame when the iteration began
    waited,               \* [slot, signaled] seen when vkWaitForFences returned
    acqRes, subRes, presRes, \* driver status of each call in this iteration
    flagAtPresent,        \* m_framebufferResized when vkQueuePresentKHR returned
    newCause,             \* resize notification or stale/suboptimal status
                          \* received since the last rebuild was entered
    rebuildHadCause,      \* newCause when the last rebuild was entered
    flagAtStart,          \* m_framebufferResized when the iteration began
    subSlots,             \* <<slot of the submission before the last, slot of
                          \*   the last submission>>, -1 where there is none
    \* Vulkan objects
    objs,                 \* kind -> [n: handles held, live: they exist,
                          \*          fresh: created in this loop iteration]
    imageCount,           \* m_swapChainImages.size()
    step,                 \* position inside initVulkan / cleanupSwapChain /
                          \* the create calls of recreateSwapChain
    lastFail,             \* the call that failed in the function just run
    imageIndex,           \* drawFrame's local: the image acquired
    subInfo,              \* what this iteration passed to vkQueueSubmit
    presInfo,             \* what this iteration passed to vkQueuePresentKHR
    presPending,          \* slots whose presentation request has not yet
                          \* executed its wait on the render-finished semaphore
    oldImageCount,        \* size the per-image vectors had before the rebuild
                          \* of this iteration, 0 when it has not rebuilt
    \* one call of a helper computation, taken on its own
    args,                 \* the function called and the values it reads
    ret                   \* what it returned, NoRet before it has run

vars == <<pc, m_currentFrame, m_framebufferResized, m_inFlightFences, gpuQueue,
          res, winW, winH, width, height, evSeen, shouldClose, retTo,
          iterLog, startFrame, waited, acqRes, subRes, presRes, flagAtPresent,
          newCause, rebuildHadCause, flagAtStart, subSlots,
          objs, imageCount, step, lastFail, oldImageCount,
          imageIndex, subInfo, presInfo, presPending, args, ret>>

callv == <<args, ret>>

objv == <<objs, imageCount, step, lastFail>>

frv == <<imageIndex, subInfo, presInfo>>

prog == <<m_currentFrame, m_framebufferResized, m_inFlightFences, gpuQueue,
          res, winW, winH, width, height, evSeen, shouldClose, retTo>>
hist == <<iterLog, startFrame, waited, acqRes, subRes, presRes, flagAtPresent,
          newCause, rebuildHadCause, flagAtStart, subSlots>>

Has(log, x) == \E i \in 1 .. Len(log) : log[i] = x
Pending(s) == \E i \in 1 .. Len(gpuQueue) : gpuQueue[i].slot = s

\* command buffer i binds descriptor set i, which refers to uniform buffer i:
\* the uniform buffers a submission of command buffer i reads
UniformBuffersRead(i) == {i}

\* updateUniformBuffer(currentImage) maps and writes m_uniformBuffersMemory[currentImage]
UniformBufferWritten(currentImage) == currentImage

\* ------------------------------------------------- conditions of the code
\* faulty variant: the fence wait is missing
FenceWaitReturns_NoWait(fences, cur) == TRUE

\* vkWaitForFences(.., &m_inFlightFences[m_currentFrame], VK_TRUE, UINT64_MAX)
FenceWaitReturns(fences, cur) == fences[cur]

\* faulty variant: a suboptimal acquisition also takes the early exit
AcquireOutOfDate_OrSuboptimal(r) ==
    r = VK_ERROR_OUT_OF_DATE_KHR \/ r = VK_SUBOPTIMAL_KHR

\* if (res == VK_ERROR_OUT_OF_DATE_KHR) after vkAcquireNextImageKHR
AcquireOutOfDate(r) == r = VK_ERROR_OUT_OF_DATE_KHR

\* else if (res != VK_SUCCESS && res != VK_SUBOPTIMAL_KHR)
AcquireFailed(r) == r # VK_SUCCESS /\ r # VK_SUBOPTIMAL_KHR

\* faulty variant: the status of vkQueueSubmit is ignored
SubmitFailed_Ignored(r) == FALSE

\* if (res != VK_SUCCESS) after vkQueueSubmit
SubmitFailed(r) == r # VK_SUCCESS

\* faulty variant: the resize flag is not tested after presentation
PresentNeedsRecreate_NoFlag(r, resized) ==
    r = VK_ERROR_OUT_OF_DATE_KHR \/ r = VK_SUBOPTIMAL_KHR

\* if (res == OUT_OF_DATE || res == SUBOPTIMAL || m_framebufferResized)
PresentNeedsRecreate(r, resized) ==
    r = VK_ERROR_OUT_OF_DATE_KHR \/ r = VK_SUBOPTIMAL_KHR \/ resized

\* else if (res != VK_SUCCESS) after vkQueuePresentKHR
PresentFailed(r) == r # VK_SUCCESS

\* faulty variant: the slot index is never advanced
NextFrame_Stuck(c) == c

\* m_currentFrame = (m_currentFrame + 1) % MAX_FRAMES_IN_FLIGHT
NextFrame(c) == (c + 1) % MAX_FRAMES_IN_FLIGHT

\* faulty variant: a one-pixel width or height also counts as zero
SizeIsZero_AtMostOne(w, h) == w <= 1 \/ h <= 1

\* faulty variant: the loop only waits while both locals are zero
SizeIsZero_Both(w, h) == w = 0 /\ h = 0

\* while (width == 0 || height == 0)
SizeIsZero(w, h) == w = 0 \/ h = 0

\* faulty variant: the close request is not tested
LoopContinues_Always(close) == TRUE

\* while (!glfwWindowShouldClose(m_window))
LoopContinues(close) == ~close

\* vkDeviceWaitIdle returns when the queues are idle: every submission has
\* completed, so the semaphore wait of every queued presentation request has
\* been satisfied and executed; none is outstanding afterwards
PresentsAfterIdle(p) == {}

\* faulty variant: the idle-wait is missing
DeviceIdle_NoWait(q) == TRUE

\* vkDeviceWaitIdle returns once no submission is outstanding
DeviceIdle(q) == q = << >>

\* faulty variant: the "return;" is missing and drawFrame falls through
AfterAcquireRecreate_NoReturn == "dfReset"

\* where drawFrame continues after recreateSwapChain() in the acquire branch:
\* "return;" leaves drawFrame, back to mainLoop's while test
AfterAcquireRecreate == "loop"

\* ------------------------------------------------- submission parameters
NoInfo == [none |-> TRUE]
Sem(kind, slot) == [kind |-> kind, slot |-> slot]

\* faulty variant: the command buffer is chosen by the frame slot
SubmitInfo_SlotCommandBuffer(cur, img) ==
    [commandBuffer |-> cur,
     wait |-> Sem("imageAvailableSemaphores", cur),
     signal |-> Sem("renderFinishedSemaphores", cur),
     fence |-> cur]

\* VkSubmitInfo and the fence handed to vkQueueSubmit
\* (cur = m_currentFrame, img = imageIndex)
SubmitInfo(cur, img) ==
    [commandBuffer |-> img,
     wait |-> Sem("imageAvailableSemaphores", cur),
     signal |-> Sem("renderFinishedSemaphores", cur),
     fence |-> cur]

\* VkPresentInfoKHR: pWaitSemaphores is the signalSemaphores array of the
\* submission, pImageIndices is &imageIndex
PresentInfo(cur, img) ==
    [wait |-> Sem("renderFinishedSemaphores", cur), imageIndex |-> img]

\* ----------------------------------------------------------------- objects
ImageCounts == 1 .. MaxImages

SyncKinds ==
    {"imageAvailableSemaphores", "renderFinishedSemaphores", "inFlightFences"}

Kinds ==
    {"instance", "debugMessenger", "surface", "physicalDevice", "device",
     "swapChain", "imageViews", "renderPass", "descriptorSetLayout",
     "pipelineLayout", "graphicsPipeline", "framebuffers", "commandPool",
     "textureImage", "textureImageView", "textureSampler", "vertexBuffer",
     "indexBuffer", "uniformBuffers", "descriptorPool", "descriptorSets",
     "commandBuffers"} \cup SyncKinds

NoObject == [n |-> 0, live |-> FALSE, fresh |-> FALSE]
NoFail == [fn |-> "none", call |-> "none", onFail |-> "none"]

\* initVulkan(): the create functions in call order
InitOrder ==
    <<"createInstance", "setupDebugMessenger", "createSurface",
      "pickPhysicalDevice", "createLogicalDevice", "createSwapChain",
      "createImageViews", "createRenderPass", "createDescriptorSetLayout",
      "createGraphicsPipeline", "createFramebuffers", "createCommandPool",
      "createTextureImage", "createTextureImageView", "createTextureSampler",
      "createVertexBuffer", "createIndexBuffer", "createUniformBuffers",
      "createDescriptorPool", "createDescriptorSets", "createCommandBuffers",
      "createSyncObjects">>

\* faulty variant: the render pass is kept across a rebuild
RecreateOrder_KeepsRenderPass ==
    <<"createSwapChain", "createImageViews", "createGraphicsPipeline",
      "createFramebuffers", "createUniformBuffers", "createDescriptorPool",
      "createDescriptorSets", "createCommandBuffers">>

\* recreateSwapChain(): the create functions called after cleanupSwapChain()
RecreateOrder ==
    <<"createSwapChain", "createImageViews", "createRenderPass",
      "createGraphicsPipeline", "createFramebuffers", "createUniformBuffers",
      "createDescriptorPool", "createDescriptorSets", "createCommandBuffers">>

\* faulty variant: the swapchain is destroyed first
CleanupOrder_SwapchainFirst ==
    <<"swapChain", "descriptorPool", "uniformBuffers", "commandBuffers",
      "framebuffers", "graphicsPipeline", "pipelineLayout", "renderPass",
      "imageViews">>

\* cleanupSwapChain(): the kinds destroyed, in call order
CleanupOrder ==
    <<"descriptorPool", "uniformBuffers", "commandBuffers", "framebuffers",
      "graphicsPipeline", "pipelineLayout", "renderPass", "imageViews",
      "swapChain">>

\* vkDestroyDescriptorPool also frees the descriptor sets allocated from it,
\* vkDestroyCommandPool the command buffers allocated from it
FreedWith(k) ==
    CASE k = "descriptorPool" -> {"descriptorPool", "descriptorSets"}
      [] k = "commandPool" -> {"commandPool", "commandBuffers"}
      [] OTHER -> {k}

\* the member handles each create function writes
Creates(fn) ==
    CASE fn = "createInstance" -> {"instance"}
      [] fn = "setupDebugMessenger" -> {"debugMessenger"}
      [] fn = "createSurface" -> {"surface"}
      [] fn = "pickPhysicalDevice" -> {"physicalDevice"}
      [] fn = "createLogicalDevice" -> {"device"}
      [] fn = "createSwapChain" -> {"swapChain"}
      [] fn = "createImageViews" -> {"imageViews"}
      [] fn = "createRenderPass" -> {"renderPass"}
      [] fn = "createDescriptorSetLayout" -> {"descriptorSetLayout"}
      [] fn = "createGraphicsPipeline" -> {"pipelineLayout", "graphicsPipeline"}
      [] fn = "createFramebuffers" -> {"framebuffers"}
      [] fn = "createCommandPool" -> {"commandPool"}
      [] fn = "createTextureImage" -> {"textureImage"}
      [] fn = "createTextureImageView" -> {"textureImageView"}
      [] fn = "createTextureSampler" -> {"textureSampler"}
      [] fn = "createVertexBuffer" -> {"vertexBuffer"}
      [] fn = "createIndexBuffer" -> {"indexBuffer"}
      [] fn = "createUniformBuffers" -> {"uniformBuffers"}
      [] fn = "createDescriptorPool" -> {"descriptorPool"}
      [] fn = "createDescriptorSets" -> {"descriptorSets"}
      [] fn = "createCommandBuffers" -> {"commandBuffers"}
      [] fn = "createSyncObjects" -> SyncKinds

\* the member handles each create function passes to the driver
Needs(fn) ==
    CASE fn = "createInstance" -> {}
      [] fn = "setupDebugMessenger" -> {"instance"}
      [] fn = "createSurface" -> {"instance"}
      [] fn = "pickPhysicalDevice" -> {"instance", "surface"}
      [] fn = "createLogicalDevice" -> {"physicalDevice"}
      [] fn = "createSwapChain" -> {"physicalDevice", "surface", "device"}
      [] fn = "createImageViews" -> {"device", "swapChain"}
      [] fn = "createRenderPass" -> {"device"}
      [] fn = "createDescriptorSetLayout" -> {"device"}
      [] fn = "createGraphicsPipeline" ->
            {"device", "descriptorSetLayout", "renderPass"}
      [] fn = "createFramebuffers" -> {"device", "imageViews", "renderPass"}
      [] fn = "createCommandPool" -> {"device"}
      [] fn = "createTextureImage" -> {"device", "commandPool"}
      [] fn = "createTextureImageView" -> {"device", "textureImage"}
      [] fn = "createTextureSampler" -> {"device"}
      [] fn = "createVertexBuffer" -> {"device", "commandPool"}
      [] fn = "createIndexBuffer" -> {"device", "commandPool"}
      [] fn = "createUniformBuffers" -> {"device"}
      [] fn = "createDescriptorPool" -> {"device"}
      [] fn = "createDescriptorSets" ->
            {"device", "descriptorPool", "descriptorSetLayout",
             "uniformBuffers", "textureImageView", "textureSampler"}
      [] fn = "createCommandBuffers" ->
            {"device", "commandPool", "renderPass", "framebuffers",
             "graphicsPipeline", "pipelineLayout", "vertexBuffer",
             "indexBuffer", "descriptorSets"}
      [] fn = "createSyncObjects" -> {"device"}

\* the position in initVulkan of the function that creates kind k
CreatorOf(k) == CHOOSE i \in 1 .. Len(InitOrder) : k \in Creates(InitOrder[i])

\* the objects an object of kind k refers to for as long as it exists
DependsOn(k) ==
    CASE k = "pipelineLayout" -> {"device", "descriptorSetLayout"}
      [] k = "graphicsPipeline" -> {"device", "pipelineLayout", "renderPass"}
      [] OTHER -> Needs(InitOrder[CreatorOf(k)])

\* the objects each step of drawFrame hands to the driver: the swapchain to
\* acquire and present, the uniform buffer mapped by updateUniformBuffer, and
\* the command buffer submitted with everything recorded into it
UsedAt(p) ==
    CASE p = "dfWait" -> {"device", "inFlightFences"}
      [] p = "dfAcquire" -> {"device", "swapChain", "imageAvailableSemaphores"}
      [] p = "dfReset" -> {"device", "uniformBuffers", "inFlightFences"}
      [] p = "dfSubmit" ->
            {"commandBuffers", "imageAvailableSemaphores",
             "renderFinishedSemaphores", "inFlightFences"}
                \cup DependsOn("commandBuffers")
                \cup DependsOn("framebuffers")
                \cup DependsOn("descriptorSets")
      [] p = "dfPresent" -> {"swapChain", "renderFinishedSemaphores"}
      [] OTHER -> {}

\* The calls of each create function that return a status or can fail, and
\* what the function does when the call fails: "throw" a runtime_error,
\* "return" early, or "ignore" the status.
Call(c, f) == [call |-> c, onFail |-> f]
Calls(fn) ==
    CASE fn = "createInstance" -> <<Call("vkCreateInstance", "throw")>>
      [] fn = "setupDebugMessenger" ->
            <<Call("CreateDebugUtilsMessengerEXT", "throw")>>
      [] fn = "createSurface" -> <<Call("glfwCreateWindowSurface", "throw")>>
      [] fn = "pickPhysicalDevice" ->
            <<Call("vkEnumeratePhysicalDevices(count)", "throw"),
              Call("vkEnumeratePhysicalDevices(devices)", "return")>>
      [] fn = "createLogicalDevice" -> <<Call("vkCreateDevice", "throw")>>
      [] fn = "createSwapChain" ->
            <<Call("vkCreateSwapchainKHR", "throw"),
              Call("vkGetSwapchainImagesKHR", "ignore")>>
      [] fn = "createImageViews" -> <<Call("vkCreateImageView", "throw")>>
      [] fn = "createRenderPass" -> <<Call("vkCreateRenderPass", "throw")>>
      [] fn = "createDescriptorSetLayout" ->
            <<Call("vkCreateDescriptorSetLayout", "throw")>>
      [] fn = "createGraphicsPipeline" ->
            <<Call("vkCreateShaderModule", "throw"),
              Call("vkCreatePipelineLayout", "throw"),
              Call("vkCreateGraphicsPipelines", "throw")>>
      [] fn = "createFramebuffers" -> <<Call("vkCreateFramebuffer", "throw")>>
      [] fn = "createCommandPool" -> <<Call("vkCreateCommandPool", "throw")>>
      [] fn = "createTextureImage" ->
            <<Call("stbi_load", "throw"),
              Call("vkCreateBuffer", "throw"),
              Call("vkAllocateMemory", "throw"),
              Call("vkCreateImage", "throw"),
              Call("vkAllocateCommandBuffers(one-shot)", "ignore")>>
      [] fn = "createTextureImageView" ->
            <<Call("vkCreateImageView", "throw")>>
      [] fn = "createTextureSampler" -> <<Call("vkCreateSampler", "throw")>>
      [] fn = "createVertexBuffer" ->
            <<Call("vkCreateBuffer", "throw"),
              Call("vkAllocateMemory", "throw"),
              Call("vkAllocateCommandBuffers(one-shot)", "ignore")>>
      [] fn = "createIndexBuffer" ->
            <<Call("vkCreateBuffer", "throw"),
              Call("vkAllocateMemory", "throw"),
              Call("vkAllocateCommandBuffers(one-shot)", "ignore")>>
      [] fn = "createUniformBuffers" ->
            <<Call("vkCreateBuffer", "throw"),
              Call("vkAllocateMemory", "throw")>>
      [] fn = "createDescriptorPool" ->
            <<Call("vkCreateDescriptorPool", "throw")>>
      [] fn = "createDescriptorSets" ->
            <<Call("vkAllocateDescriptorSets", "throw")>>
      [] fn = "createCommandBuffers" ->
            <<Call("vkAllocateCommandBuffers", "throw"),
              Call("vkBeginCommandBuffer", "throw"),
              Call("vkEndCommandBuffer", "throw")>>
      [] fn = "createSyncObjects" ->
            <<Call("vkCreateSemaphore", "throw"),
              Call("vkCreateFence", "throw")>>

\* faulty variants: per-image vectors sized by the number of frames in
\* flight / synchronisation objects sized by the number of images
CountOf_FramesInFlight(k, o, ic) ==
    CASE k \in {"imageViews", "descriptorSets"} -> ic
      [] k = "uniformBuffers" -> MAX_FRAMES_IN_FLIGHT
      [] k = "framebuffers" -> o["imageViews"].n
      [] k = "commandBuffers" -> o["framebuffers"].n
      [] k \in SyncKinds -> MAX_FRAMES_IN_FLIGHT
      [] OTHER -> 1
CountOf_SyncPerImage(k, o, ic) ==
    CASE k \in {"imageViews", "uniformBuffers", "descriptorSets"} -> ic
      [] k = "framebuffers" -> o["imageViews"].n
      [] k = "commandBuffers" -> o["framebuffers"].n
      [] k \in SyncKinds -> ic
      [] OTHER -> 1

\* the size each create function gives its vector of handles
\* (ic = m_swapChainImages.size(), o = the objects created so far)
CountOf(k, o, ic) ==
    CASE k \in {"imageViews", "uniformBuffers", "descriptorSets"} -> ic
      [] k = "framebuffers" -> o["imageViews"].n
      [] k = "commandBuffers" -> o["framebuffers"].n
      [] k \in SyncKinds -> MAX_FRAMES_IN_FLIGHT
      [] OTHER -> 1

\* the objects after fn has created its handles / after kinds ks were destroyed
CreateAll(o, fn, ic) ==
    [k \in Kinds |->
        IF k \in Creates(fn)
          THEN [n |-> CountOf(k, o, ic), live |-> TRUE, fresh |-> TRUE]
          ELSE o[k]]
DestroyAll(o, ks) ==
    [k \in Kinds |-> IF k \in ks THEN [o[k] EXCEPT !.live = FALSE] ELSE o[k]]

\* cleanup(): every object is destroyed (command buffers with their pool,
\* descriptor sets with theirs); the physical device is not an owned object
CleanupDestroys == Kinds \ {"physicalDevice"}

\* faulty variant: the device is destroyed before the swapchain-dependent
\* objects
cleanupOrder_DeviceEarly ==
    <<"renderFinishedSemaphores", "imageAvailableSemaphores", "inFlightFences",
      "commandPool", "descriptorPool", "uniformBuffers", "indexBuffer",
      "vertexBuffer", "textureSampler", "textureImageView", "textureImage",
      "device", "framebuffers", "graphicsPipeline", "pipelineLayout",
      "descriptorSetLayout", "renderPass", "imageViews", "swapChain",
      "surface", "debugMessenger", "instance">>

\* cleanup(): the kinds destroyed, in call order
cleanupOrder ==
    <<"renderFinishedSemaphores", "imageAvailableSemaphores", "inFlightFences",
      "commandPool", "descriptorPool", "uniformBuffers", "indexBuffer",
      "vertexBuffer", "textureSampler", "textureImageView", "textureImage",
      "framebuffers", "graphicsPipeline", "pipelineLayout",
      "descriptorSetLayout", "renderPass", "imageViews", "swapChain",
      "device", "surface", "debugMessenger", "instance">>

\* the objects kind k was created from: the handles passed to its create
\* call, and for what was created from the physical device also the instance
\* and surface the physical device was picked with
CreatedFrom(k) ==
    DependsOn(k) \cup (IF "physicalDevice" \in DependsOn(k)
                         THEN DependsOn("physicalDevice") ELSE {})

\* vkDestroy*(k) is valid: the handle is a live object, and a device, surface
\* or instance has no live object created from it left
DestroyValid(o, k) ==
    /\ o[k].live
    /\ k \in {"device", "surface", "instance"} =>
          \A c \in CleanupDestroys \ FreedWith(k) :
              o[c].live => k \notin CreatedFrom(c)

\* the destroy calls of a whole order: the objects left, and whether every
\* call was valid
RECURSIVE DestroyInOrder(_, _)
DestroyInOrder(o, order) ==
    IF order = << >> THEN o
    ELSE DestroyInOrder(DestroyAll(o, FreedWith(Head(order))), Tail(order))
RECURSIVE OrderValid(_, _)
OrderValid(o, order) ==
    \/ order = << >>
    \/ /\ DestroyValid(o, Head(order))
       /\ OrderValid(DestroyAll(o, FreedWith(Head(order))), Tail(order))

\* faulty variant: the fences are created without VK_FENCE_CREATE_SIGNALED_BIT
FenceCreatedSignaled_Unsignaled == FALSE

\* VK_FENCE_CREATE_SIGNALED_BIT: the state the fences are created in
FenceCreatedSignaled == TRUE

\* One create function runs.  A handle it needs that is not valid is
\* undefined behaviour (the driver crashes or reports a failure).  Otherwise
\* at most one of its calls fails and is handled as the code handles it; an
\* ignored failure lets the function go on with a garbage result.
RunCreate(fn, pcNext, stepNext) ==
    \/ /\ \E k \in Needs(fn) : ~objs[k].live
       /\ pc' \in {"crashed", "aborted"}
       /\ lastFail' = NoFail
       /\ UNCHANGED <<objs, imageCount, step>>
    \/ /\ \A k \in Needs(fn) : objs[k].live
       /\ \E i \in 0 .. Len(Calls(fn)) :
            LET onFail == IF i = 0 THEN "none" ELSE Calls(fn)[i].onFail
                done ==
                    /\ pc' = pcNext
                    /\ step' = stepNext
                    /\ IF fn = "createSwapChain"
                         THEN imageCount' \in ImageCounts
                         ELSE UNCHANGED imageCount
                    /\ objs' = CreateAll(objs, fn, imageCount')
            IN  /\ lastFail' = IF i = 0 THEN NoFail
                               ELSE [fn |-> fn, call |-> Calls(fn)[i].call,
                                     onFail |-> onFail]
                /\ CASE onFail = "none" -> done
                     [] onFail = "throw" ->
                          /\ pc' = "aborted"
                          /\ UNCHANGED <<objs, imageCount, step>>
                     [] onFail = "return" ->
                          /\ pc' = pcNext
                          /\ step' = stepNext
                          /\ UNCHANGED <<objs, imageCount>>
                     [] onFail = "ignore" ->
                          \/ done
                          \/ /\ pc' = "crashed"
                             /\ UNCHANGED <<objs, imageCount, step>>

\* ------------------------------------------------------- helper computations
UintMod == 2 ^ UintBits
Uint == 0 .. (UintMod - 1)
Flags == 0 .. (2 ^ MaxFlagBits - 1)
TypeFilters == 0 .. (2 ^ MaxMemoryTypes - 1)

\* x & y
RECURSIVE BitAnd(_, _)
BitAnd(x, y) ==
    IF x = 0 \/ y = 0 THEN 0
    ELSE (x % 2) * (y % 2) + 2 * BitAnd(x \div 2, y \div 2)

\* createSwapChain(): the value given to createInfo.minImageCount;
\* minImageCount + 1 is a uint32_t sum
imageCountOf(minImageCount, maxImageCount) ==
    LET count == (minImageCount + 1) % UintMod
    IN  IF maxImageCount > 0 /\ count > maxImageCount
          THEN maxImageCount
          ELSE count

\* VkPhysicalDeviceMemoryProperties, memoryTypes[i].propertyFlags as a[i]
MemProperties ==
    [memoryTypeCount : 0 .. MaxMemoryTypes,
     memoryTypes : [0 .. (MaxMemoryTypes - 1) -> Flags]]
NoMem ==
    [memoryTypeCount |-> 0, memoryTypes |-> [i \in 0 .. (MaxMemoryTypes - 1) |-> 0]]

NoRet == -1
Throws == -2

\* faulty variant: one common property bit is enough
MemoryTypeSuits_AnyProperty(i, typeFilter, properties, memProperties) ==
    /\ BitAnd(typeFilter, 2 ^ i) # 0
    /\ BitAnd(memProperties.memoryTypes[i], properties) # 0

\* the test of findMemoryType's loop body; 1 << i is 2^i for i below the
\* memory-type count
MemoryTypeSuits(i, typeFilter, properties, memProperties) ==
    /\ BitAnd(typeFilter, 2 ^ i) # 0
    /\ BitAnd(memProperties.memoryTypes[i], properties) = properties

\* findMemoryType(): the loop from index i on; Throws is the runtime_error
RECURSIVE findMemoryTypeFrom(_, _, _, _)
findMemoryTypeFrom(i, typeFilter, properties, memProperties) ==
    IF i >= memProperties.memoryTypeCount THEN Throws
    ELSE IF MemoryTypeSuits(i, typeFilter, properties, memProperties) THEN i
    ELSE findMemoryTypeFrom(i + 1, typeFilter, properties, memProperties)
findMemoryType(typeFilter, properties, memProperties) ==
    findMemoryTypeFrom(0, typeFilter, properties, memProperties)

\* no helper call is under consideration
NoArgs ==
    [fn |-> "none", minImageCount |-> 0, maxImageCount |-> 0,
     typeFilter |-> 0, properties |-> 0, memProperties |-> NoMem]

\* the calls considered: createSwapChain's image count for every pair of
\* surface limits, findMemoryType for every filter, request and device
CallArgs ==
    {[NoArgs EXCEPT !.fn = "createSwapChain",
                    !.minImageCount = mn, !.maxImageCount = mx] :
        mn \in Uint, mx \in Uint}
    \cup
    {[NoArgs EXCEPT !.fn = "findMemoryType", !.typeFilter = tf,
                    !.properties = pr, !.memProperties = mp] :
        tf \in TypeFilters, pr \in Flags, mp \in MemProperties}

\* -------------------------------------------------------------------- Init
InitProgram ==
    /\ pc = "init"
    /\ objs = [k \in Kinds |-> NoObject]
    /\ imageCount = 0
    /\ step = 1
    /\ lastFail = NoFail
    /\ oldImageCount = 0
    /\ presPending = {}
    /\ imageIndex = 0
    /\ subInfo = NoInfo
    /\ presInfo = NoInfo
    /\ m_currentFrame = 0
    /\ m_framebufferResized = FALSE
    /\ m_inFlightFences = [s \in Slots |-> FALSE]
    /\ gpuQueue = << >>
    /\ res = VK_SUCCESS
    /\ winW \in Dims \ {0}
    /\ winH \in Dims \ {0}
    /\ width = 0
    /\ height = 0
    /\ evSeen = FALSE
    /\ shouldClose = FALSE
    /\ retTo = "none"
    /\ iterLog = << >>
    /\ startFrame = 0
    /\ waited = [slot |-> 0, signaled |-> TRUE]
    /\ acqRes = NoResult
    /\ subRes = NoResult
    /\ presRes = NoResult
    /\ flagAtPresent = FALSE
    /\ newCause = FALSE
    /\ rebuildHadCause = TRUE
    /\ flagAtStart = FALSE
    /\ subSlots = <<-1, -1>>

\* the program after construction
Init ==
    /\ InitProgram
    /\ args = NoArgs
    /\ ret = NoRet

\* one helper call taken on its own, before it runs
CallInit ==
    /\ InitProgram
    /\ winW = 1 /\ winH = 1
    /\ args \in CallArgs
    /\ ret = NoRet

\* ---------------------------------------------------------------- initVulkan
\* The next create function of initVulkan(); after the last one run() enters
\* mainLoop().  createSyncObjects creates the fences signaled.
InitStep ==
    /\ pc = "init"
    /\ RunCreate(InitOrder[step],
                 IF step = Len(InitOrder) THEN "loop" ELSE "init",
                 IF step = Len(InitOrder) THEN 0 ELSE step + 1)
    /\ m_inFlightFences' =
          IF InitOrder[step] = "createSyncObjects" /\ pc' = "loop"
            THEN [s \in Slots |-> FenceCreatedSignaled]
            ELSE m_inFlightFences
    /\ UNCHANGED <<m_currentFrame, m_framebufferResized, gpuQueue, res, winW,
                   winH, width, height, evSeen, shouldClose, retTo>>
    /\ UNCHANGED hist
    /\ UNCHANGED oldImageCount
    /\ UNCHANGED frv
    /\ UNCHANGED presPending
    /\ UNCHANGED callv

\* ------------------------------------------------------------ window events
InEventPump == pc \in {"poll", "rcWaitEvents"}

\* A framebuffer-size event: the window takes size w x h and GLFW invokes
\* framebufferResizeCallback, which sets m_framebufferResized.
framebufferResizeCallback(w, h) ==
    /\ InEventPump
    /\ winW' = w
    /\ winH' = h
    /\ m_framebufferResized' = TRUE
    /\ evSeen' = (pc = "rcWaitEvents")
    /\ newCause' = TRUE
    /\ UNCHANGED <<pc, m_currentFrame, m_inFlightFences, gpuQueue, res, width,
                   height, shouldClose, retTo, iterLog, startFrame, waited,
                   acqRes, subRes, presRes, flagAtPresent, rebuildHadCause>>
    /\ UNCHANGED <<flagAtStart, subSlots>>
    /\ UNCHANGED objv
    /\ UNCHANGED oldImageCount
    /\ UNCHANGED frv
    /\ UNCHANGED presPending
    /\ UNCHANGED callv

\* The user asks to close the window.
CloseRequest ==
    /\ InEventPump
    /\ ~shouldClose
    /\ shouldClose' = TRUE
    /\ evSeen' = (pc = "rcWaitEvents")
    /\ UNCHANGED <<pc, m_currentFrame, m_framebufferResized, m_inFlightFences,
                   gpuQueue, res, winW, winH, width, height, retTo>>
    /\ UNCHANGED hist
    /\ UNCHANGED objv
    /\ UNCHANGED oldImageCount
    /\ UNCHANGED frv
    /\ UNCHANGED presPending
    /\ UNCHANGED callv

\* Any other event (mouse, keyboard, focus): it only wakes glfwWaitEvents.
OtherEvent ==
    /\ pc = "rcWaitEvents"
    /\ ~evSeen
    /\ evSeen' = TRUE
    /\ UNCHANGED <<pc, m_currentFrame, m_framebufferResized, m_inFlightFences,
                   gpuQueue, res, winW, winH, width, height, shouldClose, retTo>>
    /\ UNCHANGED hist
    /\ UNCHANGED objv
    /\ UNCHANGED oldImageCount
    /\ UNCHANGED frv
    /\ UNCHANGED presPending
    /\ UNCHANGED callv

\* ---------------------------------------------------------------- mainLoop
\* while (!glfwWindowShouldClose(m_window))
MainLoopTest ==
    /\ pc = "loop"
    /\ pc' = IF LoopContinues(shouldClose) THEN "poll" ELSE "mlWaitIdle"
    /\ UNCHANGED prog
    /\ UNCHANGED hist
    /\ UNCHANGED objv
    /\ UNCHANGED oldImageCount
    /\ UNCHANGED frv
    /\ UNCHANGED presPending
    /\ UNCHANGED callv

\* glfwPollEvents() returns and drawFrame() is entered.
PollEventsReturn ==
    /\ pc = "poll"
    /\ pc' = "dfWait"
    /\ res' = VK_SUCCESS
    /\ iterLog' = << >>
    /\ startFrame' = m_currentFrame
    /\ acqRes' = NoResult
    /\ subRes' = NoResult
    /\ presRes' = NoResult
    /\ flagAtPresent' = FALSE
    /\ UNCHANGED <<m_currentFrame, m_framebufferResized, m_inFlightFences,
                   gpuQueue, winW, winH, width, height, evSeen, shouldClose,
                   retTo, waited, newCause, rebuildHadCause>>
    /\ flagAtStart' = m_framebufferResized
    /\ UNCHANGED subSlots
    /\ objs' = [k \in Kinds |-> [objs[k] EXCEPT !.fresh = FALSE]]
    /\ UNCHANGED <<imageCount, step, lastFail>>
    /\ oldImageCount' = 0
    /\ imageIndex' = 0
    /\ subInfo' = NoInfo
    /\ presInfo' = NoInfo
    /\ UNCHANGED presPending
    /\ UNCHANGED callv

\* --------------------------------------------------------------- drawFrame
\* faulty variant: the wait has a zero timeout and returns at once
WaitForFences_ZeroTimeout ==
    /\ pc = "dfWait"
    /\ pc' = "dfAcquire"
    /\ iterLog' = Append(iterLog, "wait")
    /\ waited' = [slot |-> m_currentFrame,
                  signaled |-> m_inFlightFences[m_currentFrame]]
    /\ UNCHANGED prog
    /\ UNCHANGED <<startFrame, acqRes, subRes, presRes, flagAtPresent,
                   newCause, rebuildHadCause>>
    /\ UNCHANGED <<flagAtStart, subSlots>>
    /\ UNCHANGED objv
    /\ UNCHANGED oldImageCount
    /\ UNCHANGED frv
    /\ UNCHANGED presPending
    /\ UNCHANGED callv

WaitForFences ==
    /\ pc = "dfWait"
    /\ FenceWaitReturns(m_inFlightFences, m_currentFrame)
    /\ pc' = "dfAcquire"
    /\ iterLog' = Append(iterLog, "wait")
    /\ waited' = [slot |-> m_currentFrame,
                  signaled |-> m_inFlightFences[m_currentFrame]]
    /\ UNCHANGED prog
    /\ UNCHANGED <<startFrame, acqRes, subRes, presRes, flagAtPresent,
                   newCause, rebuildHadCause>>
    /\ UNCHANGED <<flagAtStart, subSlots>>
    /\ UNCHANGED objv
    /\ UNCHANGED oldImageCount
    /\ UNCHANGED frv
    /\ UNCHANGED presPending
    /\ UNCHANGED callv

\* Entry of recreateSwapChain from call site site: int width = 0, height = 0
EnterRecreate(site, cause) ==
    /\ pc' = "rcLoopTest"
    /\ retTo' = site
    /\ width' = 0
    /\ height' = 0
    /\ rebuildHadCause' = cause
    /\ newCause' = FALSE

AcquireNextImage ==
    /\ pc = "dfAcquire"
    /\ \E r \in AcquireResults :
        /\ res' = r
        /\ acqRes' = r
        /\ iterLog' = Append(iterLog, "acquire")
        /\ IF AcquireOutOfDate(r)
             THEN /\ EnterRecreate("acquire", TRUE)
                  /\ UNCHANGED imageIndex
             ELSE /\ pc' = IF AcquireFailed(r) THEN "aborted" ELSE "dfReset"
                  /\ imageIndex' \in 0 .. imageCount - 1
                  /\ newCause' = (newCause \/ r = VK_SUBOPTIMAL_KHR)
                  /\ UNCHANGED <<retTo, width, height, rebuildHadCause>>
    /\ UNCHANGED <<m_currentFrame, m_framebufferResized, m_inFlightFences,
                   gpuQueue, winW, winH, evSeen, shouldClose, startFrame,
                   waited, subRes, presRes, flagAtPresent>>
    /\ UNCHANGED <<flagAtStart, subSlots>>
    /\ UNCHANGED objv
    /\ UNCHANGED oldImageCount
    /\ UNCHANGED <<subInfo, presInfo>>
    /\ UNCHANGED presPending
    /\ UNCHANGED callv

\* updateUniformBuffer(imageIndex); vkResetFences(.., &m_inFlightFences[cur])
ResetFences ==
    /\ pc = "dfReset"
    /\ pc' = "dfSubmit"
    /\ m_inFlightFences' = [m_inFlightFences EXCEPT ![m_currentFrame] = FALSE]
    /\ iterLog' = Append(iterLog, "reset")
    /\ UNCHANGED <<m_currentFrame, m_framebufferResized, gpuQueue, res, winW,
                   winH, width, height, evSeen, shouldClose, retTo, startFrame,
                   waited, acqRes, subRes, presRes, flagAtPresent, newCause,
                   rebuildHadCause>>
    /\ UNCHANGED <<flagAtStart, subSlots>>
    /\ UNCHANGED objv
    /\ UNCHANGED oldImageCount
    /\ UNCHANGED frv
    /\ UNCHANGED presPending
    /\ UNCHANGED callv

\* vkQueueSubmit(m_graphicsQueue, 1, &submitInfo, m_inFlightFences[cur])
QueueSubmit ==
    /\ pc = "dfSubmit"
    /\ \E r \in SubmitResults :
        /\ res' = r
        /\ subRes' = r
        /\ gpuQueue' = IF r = VK_SUCCESS
                         THEN Append(gpuQueue,
                                     [slot |-> m_currentFrame,
                                      image |-> imageIndex])
                         ELSE gpuQueue
        /\ subSlots' = IF r = VK_SUCCESS
                         THEN <<subSlots[2], m_currentFrame>>
                         ELSE subSlots
        /\ pc' = IF SubmitFailed(r) THEN "aborted" ELSE "dfPresent"
    /\ iterLog' = Append(iterLog, "submit")
    /\ UNCHANGED <<m_currentFrame, m_framebufferResized, m_inFlightFences,
                   winW, winH, width, height, evSeen, shouldClose, retTo,
                   startFrame, waited, acqRes, presRes, flagAtPresent,
                   newCause, rebuildHadCause>>
    /\ UNCHANGED flagAtStart
    /\ UNCHANGED objv
    /\ UNCHANGED oldImageCount
    /\ subInfo' = SubmitInfo(m_currentFrame, imageIndex)
    /\ UNCHANGED <<imageIndex, presInfo>>
    /\ UNCHANGED presPending
    /\ UNCHANGED callv

\* vkQueuePresentKHR and the test on its result
QueuePresent ==
    /\ pc = "dfPresent"
    /\ \E r \in PresentResults :
        /\ res' = r
        /\ presRes' = r
        /\ flagAtPresent' = m_framebufferResized
        /\ iterLog' = Append(iterLog, "present")
        /\ IF PresentNeedsRecreate(r, m_framebufferResized)
             THEN EnterRecreate("present",
                      newCause \/ r \in {VK_ERROR_OUT_OF_DATE_KHR,
                                         VK_SUBOPTIMAL_KHR})
             ELSE /\ pc' = IF PresentFailed(r) THEN "aborted" ELSE "dfAdvance"
                  /\ UNCHANGED <<retTo, width, height, rebuildHadCause,
                                 newCause>>
    /\ UNCHANGED <<m_currentFrame, m_framebufferResized, m_inFlightFences,
                   gpuQueue, winW, winH, evSeen, shouldClose, startFrame,
                   waited, acqRes, subRes>>
    /\ UNCHANGED <<flagAtStart, subSlots>>
    /\ UNCHANGED objv
    /\ UNCHANGED oldImageCount
    /\ presInfo' = PresentInfo(m_currentFrame, imageIndex)
    /\ UNCHANGED <<imageIndex, subInfo>>
    /\ presPending' = presPending \cup {PresentInfo(m_currentFrame, imageIndex).wait.slot}
    /\ UNCHANGED callv

\* m_framebufferResized = false; (after recreateSwapChain in the present branch)
ClearResized ==
    /\ pc = "dfClearFlag"
    /\ pc' = "dfAdvance"
    /\ m_framebufferResized' = FALSE
    /\ UNCHANGED <<m_currentFrame, m_inFlightFences, gpuQueue, res, winW, winH,
                   width, height, evSeen, shouldClose, retTo>>
    /\ UNCHANGED hist
    /\ UNCHANGED objv
    /\ UNCHANGED oldImageCount
    /\ UNCHANGED frv
    /\ UNCHANGED presPending
    /\ UNCHANGED callv

\* m_currentFrame = (m_currentFrame + 1) % MAX_FRAMES_IN_FLIGHT; drawFrame returns
AdvanceFrame ==
    /\ pc = "dfAdvance"
    /\ pc' = "loop"
    /\ m_currentFrame' = NextFrame(m_currentFrame)
    /\ iterLog' = Append(iterLog, "advance")
    /\ UNCHANGED <<m_framebufferResized, m_inFlightFences, gpuQueue, res, winW,
                   winH, width, height, evSeen, shouldClose, retTo, startFrame,
                   waited, acqRes, subRes, presRes, flagAtPresent, newCause,
                   rebuildHadCause>>
    /\ UNCHANGED <<flagAtStart, subSlots>>
    /\ UNCHANGED objv
    /\ UNCHANGED oldImageCount
    /\ UNCHANGED frv
    /\ UNCHANGED presPending
    /\ UNCHANGED callv

\* ------------------------------------------------------- recreateSwapChain
\* while (width == 0 || height == 0)
RecreateLoopTest ==
    /\ pc = "rcLoopTest"
    /\ pc' = IF SizeIsZero(width, height) THEN "rcGetSize" ELSE "rcWaitIdle"
    /\ UNCHANGED prog
    /\ UNCHANGED hist
    /\ UNCHANGED objv
    /\ UNCHANGED oldImageCount
    /\ UNCHANGED frv
    /\ UNCHANGED presPending
    /\ UNCHANGED callv

\* glfwGetFramebufferSize(m_window, &width, &height); then glfwWaitEvents() starts
GetFramebufferSize ==
    /\ pc = "rcGetSize"
    /\ pc' = "rcWaitEvents"
    /\ width' = winW
    /\ height' = winH
    /\ evSeen' = FALSE
    /\ UNCHANGED <<m_currentFrame, m_framebufferResized, m_inFlightFences,
                   gpuQueue, res, winW, winH, shouldClose, retTo>>
    /\ UNCHANGED hist
    /\ UNCHANGED objv
    /\ UNCHANGED oldImageCount
    /\ UNCHANGED frv
    /\ UNCHANGED presPending
    /\ UNCHANGED callv

\* glfwWaitEvents() returns: it blocks until at least one event was processed
WaitEventsReturn ==
    /\ pc = "rcWaitEvents"
    /\ evSeen
    /\ pc' = "rcLoopTest"
    /\ evSeen' = FALSE
    /\ UNCHANGED <<m_currentFrame, m_framebufferResized, m_inFlightFences,
                   gpuQueue, res, winW, winH, width, height, shouldClose, retTo>>
    /\ UNCHANGED hist
    /\ UNCHANGED objv
    /\ UNCHANGED oldImageCount
    /\ UNCHANGED frv
    /\ UNCHANGED presPending
    /\ UNCHANGED callv

\* vkDeviceWaitIdle(m_device) in recreateSwapChain.  The locals width and
\* height are not read after the loop (chooseSwapExtent asks for the size
\* again), so they leave the state here.
RecreateWaitIdle ==
    /\ pc = "rcWaitIdle"
    /\ DeviceIdle(gpuQueue)
    /\ pc' = "rcCleanup"
    /\ width' = 0
    /\ height' = 0
    /\ UNCHANGED <<m_currentFrame, m_framebufferResized, m_inFlightFences,
                   gpuQueue, res, winW, winH, evSeen, shouldClose, retTo>>
    /\ UNCHANGED hist
    /\ step' = 1
    /\ UNCHANGED <<objs, imageCount, lastFail>>
    /\ UNCHANGED oldImageCount
    /\ UNCHANGED frv
    /\ presPending' = PresentsAfterIdle(presPending)
    /\ UNCHANGED callv

\* cleanupSwapChain(): the next destroy call; after the last one
\* recreateSwapChain goes on to createSwapChain()
cleanupSwapChain ==
    /\ pc = "rcCleanup"
    /\ objs' = DestroyAll(objs, FreedWith(CleanupOrder[step]))
    /\ IF step = Len(CleanupOrder)
         THEN pc' = "rcCreate" /\ step' = 1
         ELSE pc' = "rcCleanup" /\ step' = step + 1
    /\ UNCHANGED <<imageCount, lastFail>>
    /\ UNCHANGED prog
    /\ UNCHANGED hist
    /\ UNCHANGED oldImageCount
    /\ UNCHANGED frv
    /\ UNCHANGED presPending
    /\ UNCHANGED callv

\* The next of createSwapChain() .. createCommandBuffers(); after the last
\* one recreateSwapChain returns to its call site.
RecreateCreate ==
    /\ pc = "rcCreate"
    /\ LET last == step = Len(RecreateOrder)
           site == IF retTo = "acquire" THEN AfterAcquireRecreate
                                        ELSE "dfClearFlag"
       IN  /\ RunCreate(RecreateOrder[step],
                        IF last THEN site ELSE "rcCreate",
                        IF last THEN 0 ELSE step + 1)
           /\ IF last /\ pc' = site
                 THEN /\ retTo' = "none"
                      /\ iterLog' = Append(iterLog, "rebuild")
                      /\ oldImageCount' = objs["commandBuffers"].n
                 ELSE UNCHANGED <<retTo, iterLog, oldImageCount>>
    /\ UNCHANGED <<m_currentFrame, m_framebufferResized, m_inFlightFences,
                   gpuQueue, res, winW, winH, width, height, evSeen,
                   shouldClose, startFrame, waited, acqRes, subRes, presRes,
                   flagAtPresent, newCause, rebuildHadCause>>
    /\ UNCHANGED <<flagAtStart, subSlots>>
    /\ UNCHANGED frv
    /\ UNCHANGED presPending
    /\ UNCHANGED callv

\* ---------------------------------------------------------------- shutdown
\* vkDeviceWaitIdle(m_device) at the end of mainLoop
MainLoopWaitIdle ==
    /\ pc = "mlWaitIdle"
    /\ DeviceIdle(gpuQueue)
    /\ pc' = "cleanup"
    /\ UNCHANGED prog
    /\ UNCHANGED hist
    /\ UNCHANGED objv
    /\ UNCHANGED oldImageCount
    /\ UNCHANGED frv
    /\ presPending' = PresentsAfterIdle(presPending)
    /\ UNCHANGED callv

\* cleanup(): destroys semaphores, fences and every other object, in call
\* order.  An invalid destroy call is undefined behaviour.
cleanup ==
    /\ pc = "cleanup"
    /\ IF OrderValid(objs, cleanupOrder)
         THEN pc' = "done"
         ELSE pc' \in {"done", "crashed"}
    /\ objs' = DestroyInOrder(objs, cleanupOrder)
    /\ UNCHANGED <<imageCount, step, lastFail>>
    /\ UNCHANGED prog
    /\ UNCHANGED hist
    /\ UNCHANGED oldImageCount
    /\ UNCHANGED frv
    /\ UNCHANGED presPending
    /\ UNCHANGED callv

\* --------------------------------------------------------------------- GPU
\* The graphics queue completes its oldest submission and signals its fence.
GpuComplete ==
    /\ gpuQueue # << >>
    /\ gpuQueue' = Tail(gpuQueue)
    /\ m_inFlightFences' = [m_inFlightFences EXCEPT ![Head(gpuQueue).slot] = TRUE]
    /\ UNCHANGED <<pc, m_currentFrame, m_framebufferResized, res, winW, winH,
                   width, height, evSeen, shouldClose, retTo>>
    /\ UNCHANGED hist
    /\ UNCHANGED objv
    /\ UNCHANGED oldImageCount
    /\ UNCHANGED frv
    /\ UNCHANGED presPending
    /\ UNCHANGED callv

\* The presentation engine executes a queued presentation request: the wait
\* on the render-finished semaphore of its slot is satisfied once the
\* submission that signals it has completed, and consumes the signal.
PresentExecute ==
    /\ \E s \in presPending :
        /\ ~Pending(s)
        /\ presPending' = presPending \ {s}
    /\ UNCHANGED <<pc, prog, hist, objv, oldImageCount, frv>>
    /\ UNCHANGED callv

Next ==
    \/ InitStep
    \/ \E w \in Dims, h \in Dims : framebufferResizeCallback(w, h)
    \/ CloseRequest
    \/ OtherEvent
    \/ MainLoopTest
    \/ PollEventsReturn
    \/ WaitForFences
    \/ AcquireNextImage
    \/ ResetFences
    \/ QueueSubmit
    \/ QueuePresent
    \/ ClearResized
    \/ AdvanceFrame
    \/ RecreateLoopTest
    \/ GetFramebufferSize
    \/ WaitEventsReturn
    \/ RecreateWaitIdle
    \/ cleanupSwapChain
    \/ RecreateCreate
    \/ MainLoopWaitIdle
    \/ cleanup
    \/ GpuComplete
    \/ PresentExecute

Spec == Init /\ [][Next]_vars

\* The GPU eventually completes every submission, the presentation engine
\* eventually executes every request, and the main thread runs.
FairSpec ==
    Spec /\ WF_vars(GpuComplete) /\ WF_vars(PresentExecute)
         /\ WF_vars(WaitForFences)

\* The steps of the main thread: everything run() executes itself.  Window
\* events, the GPU and the presentation engine are the environment.
MainThread ==
    \/ InitStep
    \/ MainLoopTest
    \/ PollEventsReturn
    \/ WaitForFences
    \/ AcquireNextImage
    \/ ResetFences
    \/ QueueSubmit
    \/ QueuePresent
    \/ ClearResized
    \/ AdvanceFrame
    \/ RecreateLoopTest
    \/ GetFramebufferSize
    \/ WaitEventsReturn
    \/ RecreateWaitIdle
    \/ cleanupSwapChain
    \/ RecreateCreate
    \/ MainLoopWaitIdle
    \/ cleanup

\* The main thread keeps running whenever it is not blocked, the GPU
\* completes every submission and every presentation request is executed;
\* no window event is ever obliged to arrive.
LiveSpec ==
    Spec /\ WF_vars(MainThread) /\ WF_vars(GpuComplete)
         /\ WF_vars(PresentExecute)

\* createSwapChain() computes the image count it requests
createSwapChainImageCount ==
    /\ args.fn = "createSwapChain"
    /\ ret = NoRet
    /\ ret' = imageCountOf(args.minImageCount, args.maxImageCount)
    /\ UNCHANGED <<pc, prog, hist, objv, oldImageCount, frv, presPending, args>>

\* findMemoryType() returns or throws
findMemoryTypeCall ==
    /\ args.fn = "findMemoryType"
    /\ ret = NoRet
    /\ ret' = findMemoryType(args.typeFilter, args.properties, args.memProperties)
    /\ UNCHANGED <<pc, prog, hist, objv, oldImageCount, frv, presPending, args>>

CallNext ==
    \/ createSwapChainImageCount
    \/ findMemoryTypeCall

CallSpec == CallInit /\ [][CallNext]_vars

TypeOK ==
    /\ m_currentFrame \in Slots
    /\ m_framebufferResized \in BOOLEAN
    /\ m_inFlightFences \in [Slots -> BOOLEAN]
    /\ winW \in Dims /\ winH \in Dims
    /\ width \in Dims /\ height \in Dims
    /\ objs \in [Kinds -> [n : 0 .. MaxImages + MAX_FRAMES_IN_FLIGHT,
                           live : BOOLEAN, fresh : BOOLEAN]]
    /\ imageCount \in 0 .. MaxImages
    /\ step \in 0 .. Len(InitOrder)
    /\ imageIndex \in 0 .. MaxImages - 1
    /\ presPending \subseteq Slots
    /\ args \in CallArgs \cup {NoArgs}
    /\ ret \in Uint \cup {NoRet, Throws}
    /\ oldImageCount \in 0 .. MaxImages
    /\ subInfo = NoInfo \/ subInfo = SubmitInfo(subInfo.fence, subInfo.commandBuffer)
    /\ lastFail = NoFail \/ lastFail.onFail \in {"throw", "return", "ignore"}

\* main(): the status the process ends with.  run() returning normally gives
\* EXIT_SUCCESS, an exception caught by main gives EXIT_FAILURE; a process
\* killed by undefined behaviour returns nothing from main.
ExitStatus ==
    CASE pc = "done" -> "EXIT_SUCCESS"
      [] pc = "aborted" -> "EXIT_FAILURE"
      [] OTHER -> "none"

\* ================================================================== claims
AtReturn == pc = "loop"
Stale == {VK_ERROR_OUT_OF_DATE_KHR, VK_SUBOPTIMAL_KHR}
Recoverable == {VK_SUCCESS, VK_SUBOPTIMAL_KHR, VK_ERROR_OUT_OF_DATE_KHR}

\* C1: at most MAX_FRAMES_IN_FLIGHT frames are ever submitted and not yet
\* completed (their fence not yet signaled).
Thm_C1 == Len(gpuQueue) <= MAX_FRAMES_IN_FLIGHT
Wit_C1 == Len(gpuQueue) = MAX_FRAMES_IN_FLIGHT

\* C2: when drawFrame is about to reset and submit with the fence of the
\* current slot, the fence wait of this same iteration returned for that slot
\* with the fence signaled, and no earlier submission into the slot is pending.
Thm_C2 ==
    pc \in {"dfReset", "dfSubmit"} =>
        /\ Has(iterLog, "wait")
        /\ waited.slot = m_currentFrame
        /\ waited.signaled
        /\ ~Pending(m_currentFrame)
Wit_C2 == pc = "dfSubmit" /\ Len(gpuQueue) = 1 /\ startFrame = 1

\* C3: an iteration whose acquisition returned VK_ERROR_OUT_OF_DATE_KHR never
\* resets the fence, submits, presents or advances the slot index; when it
\* returns it has done exactly wait, acquire, rebuild.
Thm_C3 ==
    acqRes = VK_ERROR_OUT_OF_DATE_KHR =>
        /\ ~Has(iterLog, "reset")
        /\ ~Has(iterLog, "submit")
        /\ ~Has(iterLog, "present")
        /\ ~Has(iterLog, "advance")
        /\ m_currentFrame = startFrame
        /\ m_inFlightFences[m_currentFrame]
        /\ AtReturn => iterLog = <<"wait", "acquire", "rebuild">>
Wit_C3 == AtReturn /\ acqRes = VK_ERROR_OUT_OF_DATE_KHR

\* C4: an unsignaled fence always has a pending submission that will signal
\* it (or the submission is the very next step, or the process has aborted),
\* and, the GPU completing every submission, a fence wait always returns.
FenceArmed ==
    \A s \in Slots :
        ~m_inFlightFences[s] =>
            \/ Pending(s)
            \/ (pc = "dfSubmit" /\ s = m_currentFrame)
            \/ pc \in {"init", "aborted", "crashed"}
Thm_C4 == [](FenceArmed) /\ ((pc = "dfWait") ~> (pc # "dfWait"))
Wit_C4 == pc = "dfWait" /\ ~m_inFlightFences[m_currentFrame]

\* C5 (as stated): an iteration whose acquisition was suboptimal submits,
\* presents and always rebuilds before it returns.
Orig_C5 ==
    (AtReturn /\ acqRes = VK_SUBOPTIMAL_KHR) =>
        /\ Has(iterLog, "submit")
        /\ Has(iterLog, "present")
        /\ Has(iterLog, "rebuild")
\* C5 (amended): an iteration whose acquisition was suboptimal submits and
\* presents; it rebuilds after the presentation exactly when the presentation
\* returned out-of-date or suboptimal or the resize flag was set: the
\* suboptimal status of the acquisition is not retained.
Thm_C5 ==
    /\ (AtReturn /\ acqRes = VK_SUBOPTIMAL_KHR) =>
          /\ Has(iterLog, "submit")
          /\ Has(iterLog, "present")
          /\ Has(iterLog, "rebuild") <=> (presRes \in Stale \/ flagAtPresent)
    /\ (pc = "dfPresent" /\ acqRes = VK_SUBOPTIMAL_KHR) => res = VK_SUCCESS
Wit_C5 == AtReturn /\ acqRes = VK_SUBOPTIMAL_KHR /\ ~Has(iterLog, "rebuild")

\* C6: whenever cleanupSwapChain or cleanup is about to destroy objects, no
\* submitted frame is in flight.
Thm_C6 == pc \in {"rcCleanup", "cleanup"} => gpuQueue = << >>
Wit_C6 == pc = "rcCleanup" /\ retTo = "present" /\ Has(iterLog, "submit")

\* C7 (as stated): swapchain creation in recreateSwapChain is only invoked
\* while the window's current width and height are both non-zero.
Orig_C7 == pc = "rcCreate" => (winW # 0 /\ winH # 0)

\* C8 (as stated): a status of acquire, submit or present other than success,
\* out-of-date and suboptimal always aborts the process.
Orig_C8 ==
    (acqRes \notin Recoverable \cup {NoResult}
       \/ subRes \notin Recoverable \cup {NoResult}
       \/ presRes \notin Recoverable \cup {NoResult})
    => pc = "aborted"

\* C9: an iteration that presented with an out-of-date or suboptimal status
\* or with the resize flag set has, when it returns, rebuilt after the
\* presentation, cleared the resize flag and advanced the slot index by one.
Thm_C9 ==
    (AtReturn /\ Has(iterLog, "present") /\ (presRes \in Stale \/ flagAtPresent))
    => /\ iterLog = <<"wait", "acquire", "reset", "submit", "present",
                      "rebuild", "advance">>
       /\ ~m_framebufferResized
       /\ m_currentFrame = (startFrame + 1) % MAX_FRAMES_IN_FLIGHT
Wit_C9 ==
    AtReturn /\ flagAtPresent /\ presRes = VK_SUCCESS /\ Has(iterLog, "rebuild")

\* C10 (as stated): resize notifications cause one rebuild; once a rebuild
\* has been entered, no further rebuild is entered unless a new resize
\* notification or a new out-of-date/suboptimal status has arrived since.
Orig_C10 == rebuildHadCause

\* C11 (as stated): an iteration that starts with m_framebufferResized set
\* has, when it returns, performed a rebuild and left the flag false.
Orig_C11 ==
    (AtReturn /\ iterLog # << >> /\ flagAtStart) =>
        (Has(iterLog, "rebuild") /\ ~m_framebufferResized)

\* C12: the slot index stays in 0..N-1; an iteration that submitted and
\* presented returns with the index advanced by one modulo N; a stale-acquire
\* iteration and a rebuild leave it unchanged; consecutive submissions use
\* consecutive slots, starting with slot 0.
InRebuild ==
    pc \in {"rcLoopTest", "rcGetSize", "rcWaitEvents", "rcWaitIdle",
            "rcCleanup", "rcCreate", "dfClearFlag"}
Thm_C12 ==
    /\ m_currentFrame \in Slots
    /\ (AtReturn /\ Has(iterLog, "submit") /\ Has(iterLog, "present")) =>
           m_currentFrame = (startFrame + 1) % MAX_FRAMES_IN_FLIGHT
    /\ (AtReturn /\ acqRes = VK_ERROR_OUT_OF_DATE_KHR) =>
           m_currentFrame = startFrame
    /\ InRebuild => m_currentFrame = startFrame
    /\ subSlots[2] # -1 =>
           subSlots[2] = (subSlots[1] + 1) % MAX_FRAMES_IN_FLIGHT
Wit_C12 ==
    /\ subSlots = <<1, 0>>
    /\ AtReturn
    /\ Has(iterLog, "rebuild")
    /\ m_currentFrame = 1

\* C15: the device idle-wait of a rebuild is only reached with a non-zero
\* width and height in the locals read by glfwGetFramebufferSize, and the
\* destroy and create calls are only reached through that idle-wait; with a
\* zero reading the rebuild only reads the size and waits for events.
Thm_C15 ==
    /\ [](pc = "rcWaitIdle" => (width # 0 /\ height # 0))
    /\ [][(pc' = "rcWaitIdle" /\ pc # "rcWaitIdle") =>
             (pc = "rcLoopTest" /\ width # 0 /\ height # 0)]_vars
    /\ [][(pc' = "rcCleanup" /\ pc # "rcCleanup") => pc = "rcWaitIdle"]_vars
    /\ [][(pc' = "rcCreate" /\ pc # "rcCreate") => pc = "rcCleanup"]_vars
Wit_C15 == pc = "rcWaitEvents" /\ width = 0 /\ height # 0 /\ evSeen

PerImageKinds ==
    {"imageViews", "framebuffers", "commandBuffers", "uniformBuffers",
     "descriptorSets"}
SwapchainKinds ==
    {"swapChain", "imageViews", "renderPass", "pipelineLayout",
     "graphicsPipeline", "framebuffers", "uniformBuffers", "descriptorPool",
     "descriptorSets", "commandBuffers"}
Built == pc \notin {"init", "rcCleanup", "rcCreate", "aborted", "crashed", "done"}
Rebuilt == Has(iterLog, "rebuild") /\ pc \in {"loop", "dfClearFlag", "dfAdvance"}

\* C13: after initialisation and after every rebuild the image views,
\* framebuffers, command buffers, uniform buffers and descriptor sets exist
\* and each of their vectors has exactly as many entries as the current
\* swapchain has images, also when the rebuild changed the image count.
Thm_C13 ==
    Built => /\ imageCount \in ImageCounts
             /\ \A k \in PerImageKinds :
                    objs[k].live /\ objs[k].n = imageCount
Wit_C13 == Rebuilt /\ oldImageCount = 2 /\ imageCount = 1

\* C14: a rebuild replaces the whole swapchain generation.  Every handle a
\* step of drawFrame uses exists; cleanupSwapChain and cleanup destroy only
\* handles that exist; a create function of the rebuild is given only
\* handles that exist; when the rebuild has returned every object of the
\* generation exists and was created by it; and outside initialisation,
\* rebuild and cleanup no handle changes.
Thm_C14 ==
    /\ [](\A k \in UsedAt(pc) : objs[k].live)
    /\ [](pc = "rcCleanup" =>
             \A k \in FreedWith(CleanupOrder[step]) : objs[k].live)
    /\ [](pc = "rcCreate" =>
             \A k \in Needs(RecreateOrder[step]) : objs[k].live)
    /\ [](pc = "cleanup" => \A k \in CleanupDestroys : objs[k].live)
    /\ [](Rebuilt => \A k \in SwapchainKinds : objs[k].live /\ objs[k].fresh)
    /\ [][pc \notin {"init", "rcCleanup", "rcCreate", "cleanup"} =>
             \A k \in Kinds : /\ objs'[k].live = objs[k].live
                              /\ objs'[k].n = objs[k].n]_vars
Wit_C14 ==
    /\ Rebuilt /\ AtReturn
    /\ \A k \in SwapchainKinds : objs[k].fresh
    /\ \A k \in Kinds \ SwapchainKinds : objs[k].live /\ ~objs[k].fresh
    /\ subSlots[2] # -1

\* C17: from the end of initialisation until cleanup there are exactly
\* MAX_FRAMES_IN_FLIGHT image-available semaphores, render-finished
\* semaphores and fences, whatever the image count; a rebuild does not
\* destroy, recreate or resize them.
Thm_C17 ==
    pc \notin {"init", "aborted", "crashed", "done"} =>
        \A k \in SyncKinds :
            /\ objs[k].live
            /\ objs[k].n = MAX_FRAMES_IN_FLIGHT
            /\ (InRebuild \/ Has(iterLog, "rebuild")) => ~objs[k].fresh
Wit_C17 ==
    /\ AtReturn /\ Has(iterLog, "rebuild")
    /\ imageCount # MAX_FRAMES_IN_FLIGHT
    /\ oldImageCount = MAX_FRAMES_IN_FLIGHT

\* the destruction order the claim lists
ListedOrder ==
    <<"descriptorPool", "uniformBuffers", "commandBuffers", "framebuffers",
      "graphicsPipeline", "pipelineLayout", "renderPass", "imageViews",
      "swapChain">>

\* C19 as stated: cleanupSwapChain destroys in the listed order, during a
\* rebuild no object exists while an object it depends on is destroyed, and
\* every create function runs after the objects it needs exist.
Orig_C19 ==
    /\ pc = "rcCleanup" =>
          \A i \in 1 .. Len(ListedOrder) :
              \A k \in FreedWith(ListedOrder[i]) : objs[k].live <=> step <= i
    /\ pc \in {"rcCleanup", "rcCreate"} =>
          \A k \in Kinds : objs[k].live =>
              \A d \in DependsOn(k) : objs[d].live
    /\ pc = "rcCreate" => \A k \in Needs(RecreateOrder[step]) : objs[k].live

\* C19, amended: as above, except that the descriptor sets are freed (with
\* their pool, in the first step) while the command buffers that bind them
\* still exist; the command buffers are freed two steps later.
Thm_C19 ==
    /\ pc = "rcCleanup" =>
          \A i \in 1 .. Len(ListedOrder) :
              \A k \in FreedWith(ListedOrder[i]) : objs[k].live <=> step <= i
    /\ pc \in {"rcCleanup", "rcCreate"} =>
          \A k \in Kinds : objs[k].live =>
              \A d \in DependsOn(k) :
                  \/ objs[d].live
                  \/ (k = "commandBuffers" /\ d = "descriptorSets"
                      /\ pc = "rcCleanup" /\ step \in {2, 3})
    /\ pc = "rcCreate" => \A k \in Needs(RecreateOrder[step]) : objs[k].live
Wit_C19 ==
    /\ pc = "rcCreate" /\ step = Len(RecreateOrder)
    /\ objs["descriptorSets"].live /\ ~objs["commandBuffers"].live

\* the step order of an iteration that submits, without and with the rebuild
\* after presentation
IterOrder == <<"wait", "acquire", "reset", "submit", "present", "advance">>
IterOrderRebuild ==
    <<"wait", "acquire", "reset", "submit", "present", "rebuild", "advance">>
IsPrefix(a, b) == Len(a) <= Len(b) /\ a = SubSeq(b, 1, Len(a))

\* C18: an iteration that submits does fence wait, acquisition, fence reset,
\* submission, presentation and slot advance in this order; the submission
\* uses the command buffer of the acquired image, waits on the image-available
\* semaphore of the current slot and signals the render-finished semaphore
\* and the fence of the current slot; the presentation waits on that
\* render-finished semaphore and presents the acquired image.
Thm_C18 ==
    /\ pc \in {"dfSubmit", "dfPresent"} => imageIndex \in 0 .. imageCount - 1
    /\ Has(iterLog, "submit") =>
          /\ IsPrefix(iterLog, IterOrder) \/ IsPrefix(iterLog, IterOrderRebuild)
          /\ AtReturn => iterLog[Len(iterLog)] = "advance"
          /\ subInfo =
                [commandBuffer |-> imageIndex,
                 wait |-> Sem("imageAvailableSemaphores", startFrame),
                 signal |-> Sem("renderFinishedSemaphores", startFrame),
                 fence |-> startFrame]
          /\ Has(iterLog, "present") =>
                presInfo = [wait |-> subInfo.signal, imageIndex |-> imageIndex]
Wit_C18 ==
    /\ AtReturn /\ iterLog = IterOrder
    /\ startFrame = 1 /\ imageIndex = 0

\* C20: every creation or allocation call of initialisation or rebuild that
\* returns a status other than success makes the program throw and
\* terminate; none is ignored or followed by a normal return.
Orig_C20 == lastFail # NoFail => (lastFail.onFail = "throw" /\ pc = "aborted")

\* the states in which the process has ended
Terminated == pc \in {"done", "aborted", "crashed"}

\* C21: the process ends in one of exactly two ways: with a printed message
\* and a non-zero status when an error was thrown inside run(), or with
\* success, and then only after a close request and a complete cleanup.
Orig_C21 ==
    /\ Terminated => ExitStatus \in {"EXIT_SUCCESS", "EXIT_FAILURE"}
    /\ ExitStatus = "EXIT_SUCCESS" =>
          (shouldClose /\ \A k \in CleanupDestroys : ~objs[k].live)

\* C22 as stated: with a drawable area of 1x1 pixel a rebuild stays in its
\* event loop and does not go on to the idle-wait and swapchain creation.
Orig_C22 ==
    (winW = 1 /\ winH = 1 /\ width = 1 /\ height = 1) => pc # "rcWaitIdle"

\* C22, amended: a size of 1x1 is not zero.  A rebuild that has read 1x1
\* leaves the loop at the next loop test, which it reaches once the
\* glfwWaitEvents call of that pass has returned after an event; the loop
\* body is only repeated after a reading with a zero width or height.
Thm_C22 ==
    /\ [][(pc = "rcLoopTest" /\ width = 1 /\ height = 1) =>
             pc' \in {"rcLoopTest", "rcWaitIdle"}]_vars
    /\ [][(pc = "rcWaitEvents" /\ pc' # "rcWaitEvents") =>
             (evSeen /\ pc' = "rcLoopTest")]_vars
    /\ [][(pc = "rcLoopTest" /\ pc' = "rcGetSize") =>
             (width = 0 \/ height = 0)]_vars
Wit_C22 ==
    /\ pc = "rcCreate" /\ winW = 1 /\ winH = 1
    /\ retTo = "present" /\ ~m_framebufferResized

\* C23: when drawFrame is about to write the uniform buffer of the acquired
\* image, no submission still in flight reads that uniform buffer.
Orig_C23 ==
    pc = "dfReset" =>
        \A i \in 1 .. Len(gpuQueue) :
            UniformBufferWritten(imageIndex)
                \notin UniformBuffersRead(gpuQueue[i].image)

\* slot s has never been submitted into
NeverSubmitted(s) == s \notin {subSlots[1], subSlots[2]}

Orig_C25 ==
    /\ pc = "dfAcquire" => ~Pending(m_currentFrame)
    /\ pc = "dfSubmit" =>
          SubmitInfo(m_currentFrame, imageIndex).signal.slot \notin presPending

\* C26: a rebuild that finds the drawable area non-zero goes on to the device
\* idle-wait without needing a window event: whenever it is inside
\* glfwWaitEvents after a non-zero reading, the call can return.
Orig_C26 ==
    (pc = "rcWaitEvents" /\ width # 0 /\ height # 0) => evSeen

\* C27: once the window has been asked to close, the main loop eventually
\* exits and cleanup runs (or the run has ended with a fatal error); stated
\* for the case the claim singles out, a close request that has just woken
\* the glfwWaitEvents of a rebuild on a zero-area window.
Orig_C27 ==
    (shouldClose /\ pc = "rcWaitEvents" /\ evSeen /\ winW = 0 /\ winH = 0)
        ~> (pc \in {"cleanup", "done", "aborted", "crashed"})

\* C28: on a run that ends normally, after any number of rebuilds, every
\* object created has been destroyed exactly once: a create function never
\* overwrites a live handle, cleanupSwapChain and cleanup only destroy live
\* objects, cleanup destroys the device, surface and instance after
\* everything created from them, and nothing is left at the end.
Thm_C28 ==
    /\ pc = "init" => \A k \in Creates(InitOrder[step]) : ~objs[k].live
    /\ pc = "rcCreate" => \A k \in Creates(RecreateOrder[step]) : ~objs[k].live
    /\ pc = "rcCleanup" => \A k \in FreedWith(CleanupOrder[step]) : objs[k].live
    /\ pc = "cleanup" => OrderValid(objs, cleanupOrder)
    /\ pc = "done" => \A k \in CleanupDestroys : objs[k].n > 0 /\ ~objs[k].live
Wit_C28 ==
    /\ pc = "done"
    /\ oldImageCount # 0
    /\ \A k \in CleanupDestroys : ~objs[k].live

\* C29: createSwapChain requests minImageCount + 1 images, or maxImageCount
\* when that is non-zero and smaller; so for limits with
\* minImageCount <= maxImageCount or maxImageCount = 0 the request is at
\* least minImageCount and, when maxImageCount > 0, at most maxImageCount.
Orig_C29 ==
    (args.fn = "createSwapChain" /\ ret # NoRet) =>
        LET mn == args.minImageCount
            mx == args.maxImageCount
        IN  /\ ret = IF mx > 0 /\ mn + 1 > mx THEN mx ELSE mn + 1
            /\ (mn <= mx \/ mx = 0) => (ret >= mn /\ (mx > 0 => ret <= mx))

\* the bits set in x
BitsOf(x) == {b \in 0 .. (UintBits - 1) : (x \div 2 ^ b) % 2 = 1}

\* the indices a call of findMemoryType may choose from: below the memory
\* type count, bit set in the filter, every requested property bit present
SuitableTypes ==
    {i \in 0 .. (args.memProperties.memoryTypeCount - 1) :
        /\ i \in BitsOf(args.typeFilter)
        /\ BitsOf(args.properties) \subseteq BitsOf(args.memProperties.memoryTypes[i])}

\* C30: findMemoryType returns the smallest index below the memory-type count
\* whose bit is set in the type filter and whose property flags include every
\* requested bit; when there is none it throws instead of returning an index.
Thm_C30 ==
    (args.fn = "findMemoryType" /\ ret # NoRet) =>
        IF SuitableTypes = {}
          THEN ret = Throws
          ELSE ret \in SuitableTypes /\ \A j \in SuitableTypes : ret <= j
Wit_C30 ==
    /\ args.fn = "findMemoryType"
    /\ args.typeFilter = 3
    /\ args.properties = 2
    /\ args.memProperties.memoryTypes[0] = 1
    /\ ret = 1

====
